---- MODULE Spec2Model ----
(***************************************************************************)
(* Model of the laptop scraper: parse_utils.py (price parsing, brand/model *)
(* resolution, title spec extraction, spec-table extraction) and           *)
(* scraper.py (link discovery, record assembly, the category crawl loop).  *)
(*                                                                         *)
(* Python str values are TLA+ strings; Len, SubSeq and \o are the only     *)
(* string operations used.  TLA+ strings are ASCII, so each non-ASCII      *)
(* character of the source is written as one ASCII character that no       *)
(* source string or input of the model uses otherwise (see "Characters").  *)
(* Optional[T] values are sequences: <<>> is None, <<v>> is the value v.   *)
(***************************************************************************)
EXTENDS Integers, Sequences, FiniteSets, TLC

VARIABLES
    called,
    text, price_pln,
    name, brand_model,
    title, out,
    todo, spec,
    html, url, row,
    listing_html, uniq,
    pc, page, links, collected, product_seen, requests

priceVars == <<text, price_pln>>
brandVars == <<name, brand_model>>
titleVars == <<title, out>>
tableVars == <<todo, spec>>
pageVars  == <<html, url, row>>
linkVars  == <<listing_html, uniq>>
crawlVars == <<pc, page, links, collected, product_seen, requests>>
vars == <<called, text, price_pln, name, brand_model, title, out, todo, spec,
          html, url, row, listing_html, uniq,
          pc, page, links, collected, product_seen, requests>>

-----------------------------------------------------------------------------
(* Optional values *)

None == <<>>
Some(v) == <<v>>
IsNone(o) == Len(o) = 0
\* o when it is a value, alt when o is None
OrElse(o, alt) == IF Len(o) = 0 THEN alt ELSE o
Get(o) == o[1]

-----------------------------------------------------------------------------
(* Characters *)

a_ogonek == "@"
c_acute  == "^"
e_ogonek == "&"
l_stroke == "#"
s_acute  == "$"
NBSP     == "~"
RSQUO    == "!"
EN_DASH  == "="
EM_DASH  == "+"

Digits == {"0","1","2","3","4","5","6","7","8","9"}
LowerAZ == "abcdefghijklmnopqrstuvwxyz"
UpperAZ == "ABCDEFGHIJKLMNOPQRSTUVWXYZ"

Char(s, i) == SubSeq(s, i, i)

RECURSIVE CharSet(_)
CharSet(s) == IF s = "" THEN {} ELSE {Char(s, 1)} \cup CharSet(SubSeq(s, 2, Len(s)))

LowerLetters == CharSet(LowerAZ)
UpperLetters == CharSet(UpperAZ)
PolishLetters == {a_ogonek, c_acute, e_ogonek, l_stroke, s_acute}

IsDigit(c) == c \in Digits
IsSpace(c) == c \in {" ", "\t", "\n", NBSP}
IsAsciiAlnum(c) == c \in LowerLetters \cup UpperLetters \cup Digits
IsWordChar(c) == IsAsciiAlnum(c) \/ c = "_" \/ c \in PolishLetters

IndexIn(c, alphabet) == CHOOSE i \in 1..Len(alphabet) : Char(alphabet, i) = c

LowerChar(c) == IF c \in UpperLetters THEN Char(LowerAZ, IndexIn(c, UpperAZ)) ELSE c
UpperChar(c) == IF c \in LowerLetters THEN Char(UpperAZ, IndexIn(c, LowerAZ)) ELSE c

-----------------------------------------------------------------------------
(* str methods *)

\* the character-wise operators split the string in halves, which keeps
\* the recursion shallow on long strings
RECURSIVE Lower(_)
Lower(s) ==
    IF Len(s) <= 1 THEN LowerChar(s)
    ELSE Lower(SubSeq(s, 1, Len(s) \div 2)) \o Lower(SubSeq(s, Len(s) \div 2 + 1, Len(s)))

RECURSIVE Upper(_)
Upper(s) ==
    IF Len(s) <= 1 THEN UpperChar(s)
    ELSE Upper(SubSeq(s, 1, Len(s) \div 2)) \o Upper(SubSeq(s, Len(s) \div 2 + 1, Len(s)))

StartsWithAt(s, k, i) == i + Len(k) - 1 <= Len(s) /\ SubSeq(s, i, i + Len(k) - 1) = k

\* k in s
Contains(s, k) == \E i \in 1..(Len(s) + 1) : StartsWithAt(s, k, i)

\* s.replace(old, new) for non-empty old
RECURSIVE Replace(_, _, _)
Replace(s, old, new) ==
    IF s = "" THEN ""
    ELSE IF StartsWithAt(s, old, 1)
         THEN new \o Replace(SubSeq(s, Len(old) + 1, Len(s)), old, new)
         ELSE Char(s, 1) \o Replace(SubSeq(s, 2, Len(s)), old, new)

RECURSIVE LStrip(_)
LStrip(s) == IF s # "" /\ IsSpace(Char(s, 1)) THEN LStrip(SubSeq(s, 2, Len(s))) ELSE s

RECURSIVE RStrip(_)
RStrip(s) == IF s # "" /\ IsSpace(Char(s, Len(s))) THEN RStrip(SubSeq(s, 1, Len(s) - 1)) ELSE s

Strip(s) == RStrip(LStrip(s))

\* the first index >= i of s that holds no whitespace (Len(s) + 1 if none)
RECURSIVE SkipSpace(_, _)
SkipSpace(s, i) == IF i <= Len(s) /\ IsSpace(Char(s, i)) THEN SkipSpace(s, i + 1) ELSE i

HasDigit(s) == \E i \in 1..Len(s) : IsDigit(Char(s, i))

\* re.sub(r"\s+", " ", s): every maximal whitespace run becomes one space
RECURSIVE CollapseSpace(_)
CollapseSpace(s) ==
    IF Len(s) <= 1 THEN (IF IsSpace(s) THEN " " ELSE s)
    ELSE LET l == CollapseSpace(SubSeq(s, 1, Len(s) \div 2))
             r == CollapseSpace(SubSeq(s, Len(s) \div 2 + 1, Len(s)))
         IN  IF Char(l, Len(l)) = " " /\ Char(r, 1) = " "
             THEN l \o SubSeq(r, 2, Len(r))
             ELSE l \o r

\* s is Optional[str]
normalize_whitespace(s) == Strip(CollapseSpace(IF IsNone(s) THEN "" ELSE Get(s)))

-----------------------------------------------------------------------------
(* Numbers.  A float is [num |-> n, exp |-> e] standing for n / 10^e, with  *)
(* e as small as possible, so that equal decimals are equal values.        *)

DigitVal(c) == IndexIn(c, "0123456789") - 1

RECURSIVE IntOf(_)
IntOf(s) == IF s = "" THEN 0 ELSE 10 * IntOf(SubSeq(s, 1, Len(s) - 1)) + DigitVal(Char(s, Len(s)))

AllDigits(s) == \A i \in 1..Len(s) : IsDigit(Char(s, i))

RECURSIVE Reduce(_, _)
Reduce(n, e) == IF e > 0 /\ n % 10 = 0 THEN Reduce(n \div 10, e - 1) ELSE [num |-> n, exp |-> e]

\* the value of the decimal literal ip "." fp
Decimal(ip, fp) == Reduce(IntOf(ip \o fp), Len(fp))

\* float(s): surrounding whitespace is ignored; on the characters that reach
\* it here (digits, ".", ",", whitespace) it accepts D+, D+., .D+ and D+.D+
\* and raises ValueError (None here) on everything else
PyFloat(s) ==
    LET u == Strip(s)
        dots == {i \in 1..Len(u) : Char(u, i) = "."}
    IN  IF u # "" /\ AllDigits(u) THEN Some(Decimal(u, ""))
        ELSE IF Cardinality(dots) = 1
             THEN LET d == CHOOSE i \in dots : TRUE
                      ip == SubSeq(u, 1, d - 1)
                      fp == SubSeq(u, d + 1, Len(u))
                  IN  IF AllDigits(ip) /\ AllDigits(fp) /\ Len(ip) + Len(fp) > 0
                      THEN Some(Decimal(ip, fp))
                      ELSE None
             ELSE None

Min(S) == CHOOSE x \in S : \A y \in S : x <= y

\* the end (exclusive) of the maximal run of characters of chars that starts at i
RunEnd(s, i, chars) ==
    LET stops == {j \in i..Len(s) : Char(s, j) \notin chars}
    IN  IF i > Len(s) THEN i
        ELSE IF stops = {} THEN Len(s) + 1
        ELSE Min(stops)

\* the longest run of digits of s starting at i (greedy \d+)
DigitRun(s, i) == SubSeq(s, i, RunEnd(s, i, Digits) - 1)

FirstDigitPos(s) == CHOOSE i \in 1..Len(s) :
    IsDigit(Char(s, i)) /\ \A j \in 1..(i - 1) : ~IsDigit(Char(s, j))

\* re.search(r"(\d+(?:SEP\d+)?)", s).group(1) where SEP is one character of seps
FirstNumber(s, seps) ==
    IF ~HasDigit(s) THEN None
    ELSE LET i == FirstDigitPos(s)
             ip == DigitRun(s, i)
             j == i + Len(ip)
             fp == IF j <= Len(s) /\ Char(s, j) \in seps THEN DigitRun(s, j + 1) ELSE ""
         IN  Some(IF fp = "" THEN ip ELSE ip \o Char(s, j) \o fp)

\* keep the characters of s that satisfy [0-9,.\s]
RECURSIVE KeepPriceChars(_)
KeepPriceChars(s) ==
    IF s = "" THEN ""
    ELSE LET c == Char(s, 1)
         IN  (IF IsDigit(c) \/ c \in {",", "."} \/ IsSpace(c) THEN c ELSE "")
                 \o KeepPriceChars(SubSeq(s, 2, Len(s)))

ApplySeparatorRule(t) ==
    IF Contains(t, ",") /\ Contains(t, ".") THEN Replace(Replace(t, ".", ""), ",", ".")
    ELSE IF Contains(t, ",") /\ ~Contains(t, ".") THEN Replace(t, ",", ".")
    ELSE t

clean_price_pln(txt) ==
    IF IsNone(txt) \/ Get(txt) = "" THEN None
    ELSE LET t1 == Lower(Get(txt))
             t2 == Replace(Replace(Replace(t1, "pln", ""), "z" \o l_stroke, ""), "z" \o l_stroke, "")
             t3 == KeepPriceChars(t2)
             t4 == Replace(Replace(t3, " ", ""), NBSP, "")
             t5 == ApplySeparatorRule(t4)
         IN  IF ~IsNone(PyFloat(t5)) THEN PyFloat(t5)
             ELSE LET m == FirstNumber(t5, {".", ","})
                  IN  IF ~IsNone(m) THEN PyFloat(Replace(Get(m), ",", ".")) ELSE None

-----------------------------------------------------------------------------
(* dict values are functions *)

EmptyDict == <<>>
SetItem(d, k, v) == (k :> v) @@ d
\* d.get(k)
DictGet(d, k) == IF k \in DOMAIN d THEN Some(d[k]) ELSE None
\* d[k] = Get(o) when o is a value, d unchanged when o is None
SetIfFound(d, k, o) == IF IsNone(o) THEN d ELSE SetItem(d, k, Get(o))

-----------------------------------------------------------------------------
(* guess_brand_model_from_name *)

KNOWN_BRANDS == <<
    <<"LENOVO", "Lenovo">>, <<"HP", "HP">>, <<"HEWLETT-PACKARD", "HP">>, <<"APPLE", "Apple">>,
    <<"DELL", "Dell">>, <<"ASUS", "ASUS">>, <<"ACER", "Acer">>, <<"MSI", "MSI">>,
    <<"HUAWEI", "Huawei">>, <<"LG", "LG">>, <<"MICROSOFT", "Microsoft">>,
    <<"SAMSUNG", "Samsung">>, <<"TOSHIBA", "Toshiba">>, <<"RAZER", "Razer">>,
    <<"GIGABYTE", "Gigabyte">>, <<"CHUWI", "Chuwi">>, <<"MEDION", "Medion">>,
    <<"XIAOMI", "Xiaomi">> >>

IsAsciiLetter(c) == c \in LowerLetters \cup UpperLetters

\* \b before index i of t
BoundaryAt(t, i) ==
    LET W(j) == j >= 1 /\ j <= Len(t) /\ IsWordChar(Char(t, j))
    IN  W(i - 1) # W(i)

\* the start of the leftmost match of \bW\b in t with flags=re.I, 0 if none
SearchWord(t, w) ==
    LET lt == Lower(t)
        lw == Lower(w)
        hits == {i \in 1..Len(t) :
                    /\ StartsWithAt(lt, lw, i)
                    /\ BoundaryAt(t, i) /\ BoundaryAt(t, i + Len(w))}
    IN  IF hits = {} \/ w = "" THEN 0 ELSE Min(hits)

\* the gazetteer loop: the canonical form of the leftmost brand, the earlier
\* entry on equal positions; None when no brand occurs
FindBrand(t) ==
    LET pos == [i \in 1..Len(KNOWN_BRANDS) |-> SearchWord(t, KNOWN_BRANDS[i][1])]
        hits == {i \in 1..Len(KNOWN_BRANDS) : pos[i] > 0}
        best == CHOOSE i \in hits :
                    \A j \in hits : pos[i] < pos[j] \/ (pos[i] = pos[j] /\ i <= j)
    IN  IF hits = {} THEN None ELSE Some(KNOWN_BRANDS[best][2])

\* t.split(): the whitespace-delimited tokens of t
RECURSIVE Split(_)
Split(t) ==
    LET u == LStrip(t)
        stops == {i \in 1..Len(u) : IsSpace(Char(u, i))}
        e == IF stops = {} THEN Len(u) + 1 ELSE Min(stops)
    IN  IF u = "" THEN <<>>
        ELSE <<SubSeq(u, 1, e - 1)>> \o Split(SubSeq(u, e, Len(u)))

\* re.sub(rf"\b{re.escape(w)}\b", "", t, flags=re.I, count=1)
RemoveFirstWord(t, w) ==
    LET i == SearchWord(t, w)
    IN  IF i = 0 THEN t ELSE SubSeq(t, 1, i - 1) \o SubSeq(t, i + Len(w), Len(t))

\* re.sub(r"^(Laptop|Notebook|Ultrabook)\s+", "", r, flags=re.I)
DropCategoryWord(r) ==
    LET words == {w \in {"laptop", "notebook", "ultrabook"} :
                     /\ StartsWithAt(Lower(r), w, 1)
                     /\ Len(r) > Len(w) /\ IsSpace(Char(r, Len(w) + 1))}
    IN  IF words = {} THEN r
        ELSE LET w == CHOOSE x \in words : TRUE
             IN  SubSeq(r, SkipSpace(r, Len(w) + 1), Len(r))

\* re.split(r"\s*[EN_DASH EM_DASH -]\s*|\s*\|\s*|,\s*|\(\s*", r, maxsplit=1)[0].strip()
FirstChunk(r) ==
    LET seps == {i \in 1..Len(r) : Char(r, i) \in {EN_DASH, EM_DASH, "-", "|", ",", "("}}
    IN  IF seps = {} THEN Strip(r) ELSE Strip(SubSeq(r, 1, Min(seps) - 1))

AsciiAlnum == LowerLetters \cup UpperLetters \cup Digits

\* the end (exclusive) of the match of [A-Za-z0-9]+(?:[-_/][A-Za-z0-9]+)* starting at i
RECURSIVE TokenEnd(_, _)
TokenEnd(s, i) ==
    LET e == RunEnd(s, i, AsciiAlnum)
    IN  IF /\ e + 1 <= Len(s) /\ Char(s, e) \in {"-", "_", "/"}
           /\ IsAsciiAlnum(Char(s, e + 1))
        THEN TokenEnd(s, e + 1)
        ELSE e

\* re.findall(r"[A-Za-z0-9]+(?:[-_/][A-Za-z0-9]+)*", s[i:])
RECURSIVE Tokens(_, _)
Tokens(s, i) ==
    IF i > Len(s) THEN <<>>
    ELSE IF ~IsAsciiAlnum(Char(s, i)) THEN Tokens(s, i + 1)
    ELSE <<SubSeq(s, i, TokenEnd(s, i) - 1)>> \o Tokens(s, TokenEnd(s, i))

AllLetters(s) == \A i \in 1..Len(s) : IsAsciiLetter(Char(s, i))

\* ^(i[3579](?:-\d{4,5}[A-Za-z]*)?|ryzen|core|celeron|pentium|m\d|m-?series)$
CPU(tok) ==
    LET l == Lower(tok)
    IN  \/ l \in {"i3", "i5", "i7", "i9", "ryzen", "core", "celeron", "pentium",
                  "mseries", "m-series"}
        \/ Len(l) = 2 /\ Char(l, 1) = "m" /\ IsDigit(Char(l, 2))
        \/ /\ Len(l) >= 7 /\ SubSeq(l, 1, 2) \in {"i3", "i5", "i7", "i9"} /\ Char(l, 3) = "-"
           /\ \E n \in {4, 5} :
                 /\ Len(l) >= 3 + n
                 /\ AllDigits(SubSeq(l, 4, 3 + n))
                 /\ AllLetters(SubSeq(l, 4 + n, Len(l)))

\* ^\d+\s*(gb|gib)$
RAM(tok) ==
    LET l == Lower(tok)
        e == RunEnd(l, 1, Digits)
    IN  e > 1 /\ SubSeq(l, SkipSpace(l, e), Len(l)) \in {"gb", "gib"}

\* ^(fhd|uhd|wqhd|qhd|wuxga|wxga|retina|4k|3k|2\.?8k|\d{3,4}x\d{3,4})$
RES(tok) ==
    LET l == Lower(tok)
        xs == {i \in 1..Len(l) : Char(l, i) = "x"}
    IN  \/ l \in {"fhd", "uhd", "wqhd", "qhd", "wuxga", "wxga", "retina", "4k", "3k",
                  "28k", "2.8k"}
        \/ \E i \in xs :
              /\ i - 1 \in {3, 4} /\ Len(l) - i \in {3, 4}
              /\ AllDigits(SubSeq(l, 1, i - 1)) /\ AllDigits(SubSeq(l, i + 1, Len(l)))

\* ^(windows|win\d+|linux|dos|freedos)$
OS(tok) ==
    LET l == Lower(tok)
    IN  \/ l \in {"windows", "linux", "dos", "freedos"}
        \/ Len(l) > 3 /\ SubSeq(l, 1, 3) = "win" /\ AllDigits(SubSeq(l, 4, Len(l)))

\* ^(gaming|business|home|student)$
BAD(tok) == Lower(tok) \in {"gaming", "business", "home", "student"}

IsModelToken(tok) == ~(CPU(tok) \/ RAM(tok) \/ RES(tok) \/ OS(tok) \/ BAD(tok))

\* " ".join(toks)
RECURSIVE Join(_)
Join(toks) ==
    IF Len(toks) = 0 THEN ""
    ELSE IF Len(toks) = 1 THEN toks[1]
    ELSE toks[1] \o " " \o Join(Tail(toks))

\* re.search(r"([A-Za-z]{2,}[A-Za-z0-9\-_/]+)", r).group(1)
FallbackModel(r) ==
    LET cls == AsciiAlnum \cup {"-", "_", "/"}
        hits == {i \in 1..(Len(r) - 2) :
                    /\ IsAsciiLetter(Char(r, i)) /\ IsAsciiLetter(Char(r, i + 1))
                    /\ Char(r, i + 2) \in cls}
    IN  IF hits = {} THEN None
        ELSE Some(SubSeq(r, Min(hits), RunEnd(r, Min(hits), cls) - 1))

\* seq[:n]
FirstN(seq, n) == SubSeq(seq, 1, IF Len(seq) < n THEN Len(seq) ELSE n)

\* lines 86-94: the first four tokens that are no CPU, RAM, resolution, OS or
\* marketing word, joined by spaces
ModelFromTokens(tokens) == Strip(Join(FirstN(SelectSeq(tokens, IsModelToken), 4)))

\* lines 95-100: the fallback when the model is empty or repeats the brand
BrandModel(brand, rest, model) ==
    [raised |-> FALSE, brand |-> Some(brand),
     model |-> IF model = "" \/ Lower(model) = Lower(brand)
               THEN FallbackModel(rest)
               ELSE Some(model)]

\* lines 84-100, for the text rest that is left after the brand
ModelAfterBrand(brand, rest) ==
    BrandModel(brand, rest, ModelFromTokens(Tokens(FirstChunk(rest), 1)))

\* lines 81-100, for the brand that lines 72-79 found
GuessWithBrand(t, brand) ==
    ModelAfterBrand(brand, DropCategoryWord(Strip(RemoveFirstWord(t, brand))))

\* lines 78-100: found is the gazetteer hit, words is t.split(); raised is
\* the IndexError of t.split()[0]
GuessWithHit(t, found, words) ==
    IF IsNone(found) /\ Len(words) = 0
    THEN [raised |-> TRUE, brand |-> None, model |-> None]
    ELSE GuessWithBrand(t, IF IsNone(found) THEN words[1] ELSE Get(found))

\* lines 72-100, for the normalised name t
GuessNormalized(t) == GuessWithHit(t, FindBrand(t), Split(t))

\* the result is [raised, brand, model]
guess_brand_model_from_name(nm) ==
    IF IsNone(nm) \/ Get(nm) = "" THEN [raised |-> FALSE, brand |-> None, model |-> None]
    ELSE GuessNormalized(normalize_whitespace(nm))

-----------------------------------------------------------------------------
(* extract_specs_from_title *)

RESOLUTION_KEYS == <<"WUXGA", "QHD", "WQHD", "UHD", "4K", "FHD", "WXGA", "3K", "2.8K",
                     "2880X1800", "1920X1080">>
PANEL_KEYS == <<"OLED", "IPS", "VA", "TN", "LTPS", "MINI LED", "RETINA">>

color_map == << <<"niebiesk", "Niebieski">>, <<"szary", "Szary">>, <<"srebrn", "Srebrny">>,
                <<"czarn", "Czarny">>, <<"bial", "Bia" \o l_stroke \o "y">>,
                <<"zielon", "Zielony">>, <<"z" \o l_stroke \o "oty", "Z" \o l_stroke \o "oty">> >>

\* re.search(a \s* b, s, flags=re.I) for literals a, b
SearchSpaced(s, a, b) ==
    LET ls == Lower(s)
    IN  \E i \in 1..Len(ls) :
            /\ StartsWithAt(ls, Lower(a), i)
            /\ StartsWithAt(ls, Lower(b), SkipSpace(ls, i + Len(a)))

\* re.search(k, s, flags=re.I) for a literal k
SearchCI(s, k) == Contains(Lower(s), Lower(k))

\* str.title(): a letter is upper-cased unless it follows a letter
RECURSIVE TitleCase(_, _)
TitleCase(s, afterLetter) ==
    IF s = "" THEN ""
    ELSE LET c == Char(s, 1)
             isLetter == c \in LowerLetters \cup UpperLetters \cup PolishLetters
         IN  (IF afterLetter THEN LowerChar(c) ELSE UpperChar(c))
                 \o TitleCase(SubSeq(s, 2, Len(s)), isLetter)

\* the first key of keys (in list order) that occurs in U
FirstKeyIn(keys, U) ==
    LET hits == {i \in 1..Len(keys) : Contains(U, keys[i])}
    IN  IF hits = {} THEN None
        ELSE Some(keys[CHOOSE i \in hits : \A j \in hits : i <= j])

\* the text matched at i by \d{1,2}[,.]\d, None if it does not match there
SizeAt(t, i) ==
    LET d(j) == j <= Len(t) /\ IsDigit(Char(t, j))
        p(j) == j <= Len(t) /\ Char(t, j) \in {",", "."}
    IN  IF d(i) /\ d(i + 1) /\ p(i + 2) /\ d(i + 3) THEN Some(SubSeq(t, i, i + 3))
        ELSE IF d(i) /\ p(i + 1) /\ d(i + 2) THEN Some(SubSeq(t, i, i + 2))
        ELSE None

\* re.search(r"(\d{1,2}[,.]\d)\s*[quote]?", t).group(1)
SearchSize(t) ==
    LET hits == {i \in 1..Len(t) : ~IsNone(SizeAt(t, i))}
    IN  IF hits = {} THEN None ELSE SizeAt(t, CHOOSE i \in hits : \A j \in hits : i <= j)

\* the group of (\d{lo,hi})\s*gb matched at i of the lower-cased text, None if no match there
GbAt(t, i, lo, hi) ==
    LET lens == {n \in lo..hi :
                    /\ i + n - 1 <= Len(t)
                    /\ AllDigits(SubSeq(t, i, i + n - 1))
                    /\ StartsWithAt(t, "gb", SkipSpace(t, i + n))}
    IN  IF lens = {} THEN None
        ELSE Some(SubSeq(t, i, i + (CHOOSE n \in lens : \A m \in lens : m <= n) - 1))

\* re.search(r"(\d{lo,hi})\s*GB", t, flags=re.I).group(1)
SearchGb(t, lo, hi) ==
    LET lt == Lower(t)
        hits == {i \in 1..Len(lt) : ~IsNone(GbAt(lt, i, lo, hi))}
    IN  IF hits = {} THEN None ELSE GbAt(lt, CHOOSE i \in hits : \A j \in hits : i <= j, lo, hi)

\* re.search(r"pod[\w\.]*\s*klaw|pod\u015bw|backlit|backlight", t, flags=re.I)
SearchBacklight(t) ==
    LET ls == Lower(t)
        filler(c) == IsWordChar(c) \/ c = "."
    IN  \/ \E i \in 1..Len(ls) : \E j \in (i + 3)..(Len(ls) + 1) :
               /\ StartsWithAt(ls, "pod", i)
               /\ \A k \in (i + 3)..(j - 1) : filler(Char(ls, k))
               /\ StartsWithAt(ls, "klaw", SkipSpace(ls, j))
        \/ Contains(ls, "pod" \o s_acute \o "w")
        \/ Contains(ls, "backlit")
        \/ Contains(ls, "backlight")

SearchOs(t) ==
    IF SearchSpaced(t, "win", "11") \/ SearchSpaced(t, "windows", "11") THEN Some("Windows 11")
    ELSE IF SearchSpaced(t, "win", "10") \/ SearchSpaced(t, "windows", "10") THEN Some("Windows 10")
    ELSE IF SearchCI(t, "linux") THEN Some("Linux")
    ELSE None

SearchColor(t) ==
    LET hits == {i \in 1..Len(color_map) : SearchCI(t, color_map[i][1])}
    IN  IF hits = {} THEN None
        ELSE Some(color_map[CHOOSE i \in hits : \A j \in hits : i <= j][2])

MapOption(o, F(_)) == IF IsNone(o) THEN None ELSE Some(F(Get(o)))
CommaToDot(s) == Replace(s, ",", ".")
PanelTitle(s) == TitleCase(s, FALSE)

extract_specs_from_title(ttl) ==
    LET t == Replace(Replace(ttl, RSQUO \o RSQUO, "\""), RSQUO, "'")
        U == Upper(t)
        o1 == SetIfFound(EmptyDict, "screen_size_inches", MapOption(SearchSize(t), CommaToDot))
        o2 == SetIfFound(o1, "screen_resolution", FirstKeyIn(RESOLUTION_KEYS, U))
        o3 == SetIfFound(o2, "panel_type", MapOption(FirstKeyIn(PANEL_KEYS, U), PanelTitle))
        o4 == SetIfFound(o3, "ram_gb", SearchGb(t, 1, Len(t)))
        o5 == SetIfFound(o4, "storage_capacity_gb", SearchGb(t, 3, 4))
        o6 == SetIfFound(o5, "os", SearchOs(t))
        o7 == SetIfFound(o6, "keyboard_backlight", IF SearchBacklight(t) THEN Some("tak") ELSE None)
    IN  SetIfFound(o7, "color", SearchColor(t))

-----------------------------------------------------------------------------
(* The parsed document.  An element is the sequence of its text nodes; a    *)
(* soup is a record of the elements that the selectors of the code find,    *)
(* in document order:                                                      *)
(*   h1         <<>> or <<element>>: the first h1                          *)
(*   prices     the texts of the elements found by the four price selectors*)
(*   blocks     the div, span and p elements, each [tag, nodes], that      *)
(*              soup.find walks for the availability and the rating        *)
(*   dl_blocks  sequence of [dts, dds], each a sequence of elements        *)
(*   table_rows sequence of rows, a row a sequence of [tag, nodes] cells   *)
(*   grids      sequence of grids, a grid the sequence of its child divs   *)

\* sep.join of the stripped, non-empty text nodes: Tag.get_text(sep, strip=True)
RECURSIVE GetText(_, _)
GetText(nodes, sep) ==
    IF Len(nodes) = 0 THEN ""
    ELSE LET first == Strip(Head(nodes))
             rest == GetText(Tail(nodes), sep)
         IN  IF first = "" THEN rest
             ELSE IF rest = "" THEN first
             ELSE first \o sep \o rest

NormText(nodes) == normalize_whitespace(Some(GetText(nodes, " ")))

RECURSIVE Flatten(_)
Flatten(seqs) == IF Len(seqs) = 0 THEN <<>> ELSE Head(seqs) \o Flatten(Tail(seqs))

-----------------------------------------------------------------------------
(* map_into_spec, extract_from_spec_table *)

mapping == <<
    << {"przek" \o a_ogonek \o "tna ekranu", "przekatna ekranu", "przek" \o a_ogonek \o "tna",
        "przekatna"}, "screen_size_inches" >>,
    << {"rozdzielczo" \o s_acute \o c_acute, "rozdzielczosc"}, "screen_resolution" >>,
    << {"matryca", "typ matrycy", "rodzaj matrycy", "panel"}, "panel_type" >>,
    << {"procesor", "cpu"}, "cpu" >>,
    << {"karta graficzna", "gpu", "uk" \o l_stroke \o "ad graficzny", "uklad graficzny"}, "gpu" >>,
    << {"pami" \o e_ogonek \o c_acute \o " ram", "pamie" \o c_acute \o " ram", "ram",
        "pami" \o e_ogonek \o c_acute, "pamiec"}, "ram_gb" >>,
    << {"dysk", "rodzaj dysku", "typ dysku", "no" \o s_acute \o "nik danych", "nosnik danych"},
       "storage_type" >>,
    << {"pojemno" \o s_acute \o c_acute \o " dysku", "pojemnosc dysku",
        "pojemno" \o s_acute \o c_acute \o " no" \o s_acute \o "nika", "pojemnosc nosnika"},
       "storage_capacity_gb" >>,
    << {"system operacyjny", "system"}, "os" >>,
    << {"kolor", "color"}, "color" >>,
    << {"pod" \o s_acute \o "wietlenie klawiatury", "podswietlenie klawiatury", "backlight"},
       "keyboard_backlight" >>,
    << {"dost" \o e_ogonek \o "pno" \o s_acute \o c_acute, "dostepnosc", "availability"},
       "availability" >>,
    << {"ocena", s_acute \o "rednia ocena", "srednia ocena", "rating"}, "rating" >>,
    << {"liczba opinii", "opinie", "recenzje", "review count"}, "reviews_count" >> >>

\* the rules of the mapping whose synonym set has a member occurring in key_lower
MatchingRules(key_lower) ==
    {i \in 1..Len(mapping) : \E k \in mapping[i][1] : Contains(key_lower, k)}

\* the target of the first matching rule, None when no rule matches
TargetOf(key_lower) ==
    LET hits == MatchingRules(key_lower)
    IN  IF hits = {} THEN None
        ELSE Some(mapping[CHOOSE i \in hits : \A j \in hits : i <= j][2])

map_into_spec(sp, key_lower, val) ==
    IF IsNone(TargetOf(key_lower)) THEN sp
    ELSE SetItem(sp, Get(TargetOf(key_lower)), val)

\* the (key, val) pairs of one dl block
DlPairs(block) ==
    IF Len(block.dts) = Len(block.dds) /\ Len(block.dts) > 0
    THEN [i \in 1..Len(block.dts) |->
             <<Lower(NormText(block.dts[i])), NormText(block.dds[i])>>]
    ELSE <<>>

\* the (key, val) pair of one table row: first th-or-td and last td
RowPairs(cells) ==
    LET tds == SelectSeq(cells, LAMBDA c : c.tag = "td")
    IN  IF Len(cells) > 0 /\ Len(tds) >= 1
        THEN << <<Lower(NormText(cells[1].nodes)), NormText(tds[Len(tds)].nodes)>> >>
        ELSE <<>>

\* the (key, val) pair of one grid
GridPairs(divs) ==
    IF Len(divs) = 2
    THEN << <<Lower(NormText(divs[1])), NormText(divs[2])>> >>
    ELSE <<>>

\* the arguments of the map_into_spec calls of extract_from_spec_table, in call order
SpecPairs(soup) ==
    Flatten([i \in 1..Len(soup.dl_blocks) |-> DlPairs(soup.dl_blocks[i])])
        \o Flatten([i \in 1..Len(soup.table_rows) |-> RowPairs(soup.table_rows[i])])
        \o Flatten([i \in 1..Len(soup.grids) |-> GridPairs(soup.grids[i])])

RECURSIVE MapAll(_, _)
MapAll(sp, pairs) ==
    IF Len(pairs) = 0 THEN sp
    ELSE MapAll(map_into_spec(sp, Head(pairs)[1], Head(pairs)[2]), Tail(pairs))

extract_from_spec_table(soup) == MapAll(EmptyDict, SpecPairs(soup))

-----------------------------------------------------------------------------
(* parse_float, parse_int, extract_product_id_from_url, parse_product_page *)

\* s is Optional[str]
parse_float(s) ==
    IF IsNone(s) THEN None
    ELSE LET m == FirstNumber(Replace(Get(s), ",", "."), {"."})
         IN  IF IsNone(m) THEN None ELSE PyFloat(Get(m))

\* int(d) raises ValueError when d has more digits than
\* sys.int_info.default_max_str_digits, the limit CPython applies by default
INT_MAX_STR_DIGITS == 4300

\* int(d) for a string d of digits: [raised, value]
PyInt(d) ==
    IF Len(d) > INT_MAX_STR_DIGITS THEN [raised |-> TRUE, value |-> None]
    ELSE [raised |-> FALSE, value |-> Some(IntOf(d))]

\* the result is [raised, value]; raised is the ValueError of int()
parse_int(s) ==
    IF IsNone(s) \/ ~HasDigit(Get(s)) THEN [raised |-> FALSE, value |-> None]
    ELSE PyInt(DigitRun(Get(s), FirstDigitPos(Get(s))))

\* re.search(r"/product/(\d+)/", u).group(1)
extract_product_id_from_url(u) ==
    LET hits == {i \in 1..Len(u) :
                    /\ StartsWithAt(u, "/product/", i)
                    /\ RunEnd(u, i + 9, Digits) > i + 9
                    /\ StartsWithAt(u, "/", RunEnd(u, i + 9, Digits))}
    IN  IF hits = {} THEN None
        ELSE Some(SubSeq(u, Min(hits) + 9, RunEnd(u, Min(hits) + 9, Digits) - 1))

\* name_el.get_text(strip=True), normalised; None without a heading
PageName(soup) ==
    IF Len(soup.h1) = 0 THEN None
    ELSE Some(normalize_whitespace(Some(GetText(soup.h1[1], ""))))

\* the price loop: the first candidate text that parses
RECURSIVE FirstPrice(_)
FirstPrice(els) ==
    IF Len(els) = 0 THEN None
    ELSE OrElse(clean_price_pln(Some(GetText(Head(els), " "))), FirstPrice(Tail(els)))

\* soup.find(lambda tag: tag.name in tags and (a word of words in its text))
FindBlock(soup, tags, words) ==
    LET hits == {i \in 1..Len(soup.blocks) :
                    /\ soup.blocks[i].tag \in tags
                    /\ \E w \in words : Contains(Lower(GetText(soup.blocks[i].nodes, "")), w)}
    IN  IF hits = {} THEN None ELSE Some(soup.blocks[Min(hits)].nodes)

PageAvailability(soup) ==
    LET el == FindBlock(soup, {"div", "span", "p"}, {"dost" \o e_ogonek \o "p", "magazyn"})
    IN  IF IsNone(el) THEN None ELSE Some(NormText(Get(el)))

\* re.search(r"(\d+[.,]\d+)", txt).group(1)
SearchDecimal(txt) ==
    LET ok(i) == /\ IsDigit(Char(txt, i))
                 /\ LET e == RunEnd(txt, i, Digits)
                    IN  e + 1 <= Len(txt) /\ Char(txt, e) \in {".", ","}
                            /\ IsDigit(Char(txt, e + 1))
        hits == {i \in 1..Len(txt) : ok(i)}
    IN  IF hits = {} THEN None
        ELSE LET i == Min(hits)
                 e == RunEnd(txt, i, Digits)
             IN  Some(SubSeq(txt, i, RunEnd(txt, e + 1, Digits) - 1))

\* re.search(r"(\d+)\s*(opini|recenz|ocen)", txt.lower()).group(1)
SearchReviews(txt) ==
    LET l == Lower(txt)
        ok(i) == /\ IsDigit(Char(l, i))
                 /\ \E w \in {"opini", "recenz", "ocen"} :
                        StartsWithAt(l, w, SkipSpace(l, RunEnd(l, i, Digits)))
        hits == {i \in 1..Len(l) : ok(i)}
    IN  IF hits = {} THEN None
        ELSE Some(SubSeq(l, Min(hits), RunEnd(l, Min(hits), Digits) - 1))

\* lines 155-163, for the text of the rating element
RatingOfCount(txt, count) ==
    [raised |-> count.raised,
     rating |-> parse_float(SearchDecimal(txt)),
     reviews_count |-> count.value]

RatingOf(txt) == RatingOfCount(txt, parse_int(SearchReviews(txt)))

\* the result is [raised, rating, reviews_count]
PageRating(soup) ==
    LET el == FindBlock(soup, {"div", "span"}, {"gwiaz", "ocen"})
    IN  IF IsNone(el) THEN [raised |-> FALSE, rating |-> None, reviews_count |-> None]
        ELSE RatingOf(GetText(Get(el), " "))

\* for k, v in from_title.items(): spec_map.setdefault(k, v)
MergeFromTitle_overwrite(spec_map, from_title) ==
    [k \in DOMAIN spec_map \cup DOMAIN from_title |->
        IF k \in DOMAIN from_title THEN from_title[k] ELSE spec_map[k]]

MergeFromTitle(spec_map, from_title) ==
    [k \in DOMAIN spec_map \cup DOMAIN from_title |->
        IF k \in DOMAIN spec_map THEN spec_map[k] ELSE from_title[k]]

\* lines 186-189
KeyboardBacklight(v) ==
    LET kb == Lower(IF IsNone(v) THEN "" ELSE Get(v))
    IN  IF kb = "" THEN None
        ELSE Some(\/ Contains(kb, "tak")
                  \/ Contains(kb, "pod" \o s_acute)
                  \/ Contains(kb, "podsw")
                  \/ kb \in {"yes", "true", "1"})

\* the record field made from the value v = spec_map.get(k)
FieldOf(k, v) ==
    IF k = "screen_size_inches" THEN parse_float(v)
    ELSE IF k \in {"ram_gb", "storage_capacity_gb"} THEN parse_int(v).value
    ELSE IF k = "keyboard_backlight" THEN KeyboardBacklight(v)
    ELSE v

\* lines 176-212: the ProductRow, with raised for an exception leaving the function
ProductRow(u, nm, bm, price, availability, rt, spec_map) ==
    LET f(k) == FieldOf(k, DictGet(spec_map, k))
    IN  [raised |-> \/ bm.raised
                    \/ rt.raised
                    \/ parse_int(DictGet(spec_map, "ram_gb")).raised
                    \/ parse_int(DictGet(spec_map, "storage_capacity_gb")).raised,
         product_id |-> extract_product_id_from_url(u),
         name |-> nm,
         brand |-> bm.brand,
         model |-> bm.model,
         price_pln |-> price,
         availability |-> availability,
         rating |-> rt.rating,
         reviews_count |-> rt.reviews_count,
         screen_size_inches |-> f("screen_size_inches"),
         screen_resolution |-> f("screen_resolution"),
         panel_type |-> f("panel_type"),
         cpu |-> f("cpu"),
         gpu |-> f("gpu"),
         ram_gb |-> f("ram_gb"),
         storage_type |-> f("storage_type"),
         storage_capacity_gb |-> f("storage_capacity_gb"),
         os |-> f("os"),
         color |-> f("color"),
         keyboard_backlight |-> f("keyboard_backlight"),
         product_url |-> Some(u)]

\* "if name": name is neither None nor empty
HasName(nm) == ~IsNone(nm) /\ Get(nm) # ""

\* lines 166-173: the spec-table map, completed from the title
PageSpecMap(soup, nm) ==
    MergeFromTitle(extract_from_spec_table(soup),
                   extract_specs_from_title(IF HasName(nm) THEN Get(nm) ELSE ""))

\* lines 166-168
PageBrandModel(nm) ==
    IF HasName(nm) THEN guess_brand_model_from_name(nm)
    ELSE [raised |-> FALSE, brand |-> None, model |-> None]

\* lines 129-212, for the name nm of lines 125-126
ParseWithName(soup, u, nm) ==
    ProductRow(u, nm, PageBrandModel(nm), FirstPrice(soup.prices), PageAvailability(soup),
               PageRating(soup), PageSpecMap(soup, nm))

parse_product_page(soup, u) == ParseWithName(soup, u, PageName(soup))

-----------------------------------------------------------------------------
(* discover_product_links.  A listing page is the sequence of the href      *)
(* values of its anchors, in document order.                               *)

\* re.match(r"^/product/\d+/.+\.html$", href); it implies href^="/product/"
IsProductHref(href) ==
    LET h == IF href # "" /\ Char(href, Len(href)) = "\n"
             THEN SubSeq(href, 1, Len(href) - 1) ELSE href
        e == RunEnd(h, 10, Digits)
    IN  /\ StartsWithAt(h, "/product/", 1)
        /\ e > 10 /\ StartsWithAt(h, "/", e)
        /\ Len(h) - e >= 6
        /\ SubSeq(h, Len(h) - 4, Len(h)) = ".html"
        /\ ~Contains(SubSeq(h, e + 1, Len(h)), "\n")

\* s.split(c)
RECURSIVE SplitOn(_, _)
SplitOn(s, c) ==
    LET hits == {i \in 1..Len(s) : Char(s, i) = c}
    IN  IF hits = {} THEN <<s>>
        ELSE <<SubSeq(s, 1, Min(hits) - 1)>> \o SplitOn(SubSeq(s, Min(hits) + 1, Len(s)), c)

\* c.join(segs)
RECURSIVE JoinWith(_, _)
JoinWith(segs, c) ==
    IF Len(segs) = 0 THEN ""
    ELSE IF Len(segs) = 1 THEN segs[1]
    ELSE segs[1] \o c \o JoinWith(Tail(segs), c)

\* the resolved_path loop of urljoin: "." is dropped, ".." drops the segment before it
RECURSIVE ResolveDots(_, _)
ResolveDots(segs, resolved) ==
    IF Len(segs) = 0 THEN resolved
    ELSE IF Head(segs) = ".."
         THEN ResolveDots(Tail(segs),
                  IF Len(resolved) = 0 THEN resolved ELSE SubSeq(resolved, 1, Len(resolved) - 1))
    ELSE IF Head(segs) = "." THEN ResolveDots(Tail(segs), resolved)
    ELSE ResolveDots(Tail(segs), Append(resolved, Head(segs)))

\* urljoin(base, href) for base = scheme://host/ and href an absolute path
\* without "?", "#", ";": tab and newline are removed, dot segments resolved
urljoin(base, href) ==
    LET path == Replace(Replace(href, "\n", ""), "\t", "")
        segs == SplitOn(path, "/")
        resolved == ResolveDots(segs, <<>>)
        tail == IF segs[Len(segs)] \in {".", ".."} THEN Append(resolved, "") ELSE resolved
        joined == JoinWith(tail, "/")
    IN  SubSeq(base, 1, Len(base) - 1)
            \o (IF StartsWithAt(joined, "/", 1) THEN joined ELSE "/" \o joined)

\* the de-duplication loop: the first occurrence of each value, in order
RECURSIVE Dedupe(_, _)
Dedupe(lst, seen) ==
    IF Len(lst) = 0 THEN <<>>
    ELSE IF Head(lst) \in seen THEN Dedupe(Tail(lst), seen)
    ELSE <<Head(lst)>> \o Dedupe(Tail(lst), seen \cup {Head(lst)})

\* the anchors loop: the joined URL of every product href, in document order
ProductUrls(listing, base) ==
    LET hrefs == SelectSeq(listing, IsProductHref)
    IN  [i \in 1..Len(hrefs) |-> urljoin(base, hrefs[i])]

\* de-duplication applied to the href values instead of the joined URLs
discover_product_links_by_href(listing, base) ==
    LET hrefs == Dedupe(SelectSeq(listing, IsProductHref), {})
    IN  [i \in 1..Len(hrefs) |-> urljoin(base, hrefs[i])]

discover_product_links(listing, base) == Dedupe(ProductUrls(listing, base), {})

-----------------------------------------------------------------------------
(* Inputs *)

MaxPriceLen == 4

RECURSIVE Strings(_, _)
Strings(alphabet, n) ==
    IF n = 0 THEN {""}
    ELSE LET shorter == Strings(alphabet, n - 1)
         IN  shorter \cup {s \o c : s \in shorter, c \in alphabet}

PriceAlphabet == {"3", "0", ",", ".", " ", "\t", "z"}

PriceExamples == {"3 499,00 z" \o l_stroke, "3499 z" \o l_stroke, "3.499,00 PLN",
                  "brak ceny", "3" \o NBSP \o "499,00 z" \o l_stroke}

PriceTexts == {None} \cup {Some(s) : s \in Strings(PriceAlphabet, MaxPriceLen) \cup PriceExamples}

-----------------------------------------------------------------------------
(* Variables of the operations that a specification does not exercise *)

PriceIdle == text = None /\ price_pln = None
BrandIdle == name = None /\ brand_model = None
TitleIdle == title = "" /\ out = <<>>
TableIdle == todo = <<>> /\ spec = <<>>
PageIdle  == html = None /\ url = "" /\ row = None
LinkIdle  == listing_html = <<>> /\ uniq = <<>>
CrawlIdle == /\ pc = "idle" /\ page = 0 /\ links = <<>> /\ collected = <<>>
             /\ product_seen = {} /\ requests = <<>>

-----------------------------------------------------------------------------
(* clean_price_pln called on one text *)

InitPrice ==
    /\ called = FALSE
    /\ text \in PriceTexts /\ price_pln = None
    /\ BrandIdle /\ TitleIdle /\ TableIdle /\ PageIdle /\ LinkIdle /\ CrawlIdle

CleanPricePln ==
    /\ ~called
    /\ called' = TRUE
    /\ price_pln' = clean_price_pln(text)
    /\ UNCHANGED <<text, brandVars, titleVars, tableVars, pageVars, linkVars, crawlVars>>

NextPrice == CleanPricePln

SpecPrice == InitPrice /\ [][NextPrice]_vars

\* every whitespace character removed
RECURSIVE DropWhitespace(_)
DropWhitespace(s) ==
    IF s = "" THEN ""
    ELSE (IF IsSpace(Char(s, 1)) THEN "" ELSE Char(s, 1)) \o DropWhitespace(SubSeq(s, 2, Len(s)))

TextHasDigit == ~IsNone(text) /\ HasDigit(Get(text))

\* text with whitespace between the digit groups dropped and the "," / "." rule applied
RuleText == ApplySeparatorRule(DropWhitespace(KeepPriceChars(Lower(Get(text)))))

\* C8: clean_price_pln returns absent exactly when the text has no digit;
\* otherwise whitespace between digit groups is dropped and the "," / "."
\* rule decides the decimal point, so that a text whose rule form is a
\* number gives that number ("3 499,00 zl", "3499 zl", "3.499,00 PLN" give
\* 3499.0, "brak ceny" gives absent).
C8_PriceRule ==
    called =>
        /\ IsNone(price_pln) <=> ~TextHasDigit
        /\ (TextHasDigit /\ ~IsNone(PyFloat(RuleText))) => price_pln = PyFloat(RuleText)
        /\ text = Some("brak ceny") => price_pln = None
        /\ text \in {Some("3 499,00 z" \o l_stroke), Some("3499 z" \o l_stroke), Some("3.499,00 PLN")}
               => price_pln = Some([num |-> 3499, exp |-> 0])

\* the parts of C8 that do not depend on which whitespace is dropped
C8_AbsentIffNoDigit == called => (IsNone(price_pln) <=> ~TextHasDigit)

-----------------------------------------------------------------------------
(* extract_specs_from_title called on one title *)

MaxTitleParts == 2

SeqToSet(q) == {q[i] : i \in 1..Len(q)}

TitleParts == SeqToSet(RESOLUTION_KEYS) \cup SeqToSet(PANEL_KEYS)
                \cup {"Lenovo", "16GB", "15,6", "Win11", "czarny", "wqhd", "Retina"}

RECURSIVE Phrases(_, _)
Phrases(parts, n) ==
    IF n = 0 THEN {""}
    ELSE LET shorter == Phrases(parts, n - 1)
         IN  shorter \cup parts \cup {s \o " " \o w : s \in shorter \ {""}, w \in parts}

Titles == Phrases(TitleParts, MaxTitleParts)

InitTitle ==
    /\ called = FALSE
    /\ title \in Titles /\ out = EmptyDict
    /\ PriceIdle /\ BrandIdle /\ TableIdle /\ PageIdle /\ LinkIdle /\ CrawlIdle

ExtractSpecsFromTitle ==
    /\ ~called
    /\ called' = TRUE
    /\ out' = extract_specs_from_title(title)
    /\ UNCHANGED <<title, priceVars, brandVars, tableVars, pageVars, linkVars, crawlVars>>

NextTitle == ExtractSpecsFromTitle

SpecTitle == InitTitle /\ [][NextTitle]_vars

\* K is the only keyword of keys occurring in U: K occurs, and any other
\* listed keyword found in U is a part of K and occurs nowhere outside K
OnlyKeyword(keys, U, K) ==
    /\ Contains(U, K)
    /\ \A i \in 1..Len(keys) :
          (keys[i] # K /\ Contains(U, keys[i]))
              => (Contains(K, keys[i]) /\ ~Contains(Replace(U, K, "|"), keys[i]))

\* C7: a title whose only resolution (panel) keyword is K gets K as its
\* screen_resolution (K in title case as its panel_type), never a keyword
\* that is a substring of K.
C7_NoShadowedKeyword ==
    called =>
        /\ \A i \in 1..Len(RESOLUTION_KEYS) :
              OnlyKeyword(RESOLUTION_KEYS, Upper(title), RESOLUTION_KEYS[i])
                  => DictGet(out, "screen_resolution") = Some(RESOLUTION_KEYS[i])
        /\ \A i \in 1..Len(PANEL_KEYS) :
              OnlyKeyword(PANEL_KEYS, Upper(title), PANEL_KEYS[i])
                  => DictGet(out, "panel_type") = Some(PanelTitle(PANEL_KEYS[i]))

\* the panel list alone has no shadowed keyword
C7_PanelPart ==
    called =>
        \A i \in 1..Len(PANEL_KEYS) :
            OnlyKeyword(PANEL_KEYS, Upper(title), PANEL_KEYS[i])
                => DictGet(out, "panel_type") = Some(PanelTitle(PANEL_KEYS[i]))

-----------------------------------------------------------------------------
(* extract_from_spec_table, one map_into_spec call per step *)

MaxCells == 2

\* the sequences over S of length at most n
RECURSIVE Tuples(_, _)
Tuples(S, n) ==
    IF n = 0 THEN {<<>>}
    ELSE LET shorter == Tuples(S, n - 1)
         IN  shorter \cup {Append(q, x) : q \in shorter, x \in S}

TableLabels == {<<" Procesor ">>, <<"CPU">>, <<"Waga">>}
TableValues == {<<"i5">>, <<"i7">>}
TableCells == {[tag |-> "th", nodes |-> l] : l \in TableLabels}
                \cup {[tag |-> "td", nodes |-> v] : v \in TableValues}
GridDivs == {<<"CPU">>} \cup TableValues

TableSoups ==
    {[dl_blocks |-> <<[dts |-> a, dds |-> b]>>, table_rows |-> <<r>>, grids |-> <<g>>] :
        a \in Tuples(TableLabels, MaxCells), b \in Tuples(TableValues, MaxCells),
        r \in Tuples(TableCells, MaxCells), g \in Tuples(GridDivs, MaxCells)}

\* every synonym listed in the mapping of map_into_spec
Synonyms == UNION {mapping[i][1] : i \in 1..Len(mapping)}

\* pages whose definition list has one pair, labelled by a listed synonym
SynonymSoups ==
    {[dl_blocks |-> <<[dts |-> <<<<k>>>>, dds |-> <<v>>]>>, table_rows |-> <<>>, grids |-> <<>>] :
        k \in Synonyms, v \in TableValues}

InitTable ==
    /\ called = FALSE
    /\ \E soup \in TableSoups \cup SynonymSoups : todo = SpecPairs(soup)
    /\ spec = EmptyDict
    /\ PriceIdle /\ BrandIdle /\ TitleIdle /\ PageIdle /\ LinkIdle /\ CrawlIdle

MapIntoSpec ==
    /\ Len(todo) > 0
    /\ spec' = map_into_spec(spec, Head(todo)[1], Head(todo)[2])
    /\ todo' = Tail(todo)
    /\ called' = (Len(todo) = 1)
    /\ UNCHANGED <<priceVars, brandVars, titleVars, pageVars, linkVars, crawlVars>>

NextTable == MapIntoSpec

SpecTable == InitTable /\ [][NextTable]_vars

\* C1: while the field map is built, a field that is set keeps its value:
\* a later pair mapped to an already-set field does not change it.
C1_FirstWriterWins ==
    [][\A f \in DOMAIN spec : f \in DOMAIN spec' /\ spec'[f] = spec[f]]_vars

\* what the code does instead: the pair just mapped decides its field's value
C1_LastWriterWins ==
    [][Len(todo) > 0 /\ ~IsNone(TargetOf(Head(todo)[1]))
           => spec'[Get(TargetOf(Head(todo)[1]))] = Head(todo)[2]]_vars

\* the rules that list the label of the pair that is mapped next
RulesListing(label) == {i \in 1..Len(mapping) : label \in mapping[i][1]}

\* C12: a label equal to a synonym listed in a rule of the mapping is mapped
\* to the field of that rule, not to the field of an earlier rule.
C12_SynonymToOwnRule ==
    [][Len(todo) > 0 =>
          \A i \in RulesListing(Head(todo)[1]) :
              /\ TargetOf(Head(todo)[1]) = Some(mapping[i][2])
              /\ spec'[mapping[i][2]] = Head(todo)[2]]_vars

\* the listed synonyms that contain a synonym of an earlier rule
ShadowedSynonyms ==
    {k \in Synonyms : \E i \in RulesListing(k) : \E j \in 1..(i - 1) :
                          \E e \in mapping[j][1] : Contains(k, e)}

\* what holds of the code: every listed synonym that contains no synonym of
\* an earlier rule is mapped to the field of its own rule
C12_UnshadowedSynonyms ==
    [][(Len(todo) > 0 /\ Head(todo)[1] \notin ShadowedSynonyms) =>
          \A i \in RulesListing(Head(todo)[1]) :
              /\ TargetOf(Head(todo)[1]) = Some(mapping[i][2])
              /\ spec'[mapping[i][2]] = Head(todo)[2]]_vars

-----------------------------------------------------------------------------
(* guess_brand_model_from_name called on one title *)

MaxNameParts == 3

NameParts == {"Lenovo", "Laptop", "IdeaPad", "i5", "X1", "-", " ", "\t"}

Names == {None} \cup {Some(s) : s \in Strings(NameParts, MaxNameParts)}

InitBrand ==
    /\ called = FALSE
    /\ name \in Names /\ brand_model = None
    /\ PriceIdle /\ TitleIdle /\ TableIdle /\ PageIdle /\ LinkIdle /\ CrawlIdle

GuessBrandModelFromName ==
    /\ ~called
    /\ called' = TRUE
    /\ brand_model' = Some(guess_brand_model_from_name(name))
    /\ UNCHANGED <<name, priceVars, titleVars, tableVars, pageVars, linkVars, crawlVars>>

NextBrand == GuessBrandModelFromName

SpecBrand == InitBrand /\ [][NextBrand]_vars

\* the title has no whitespace-delimited token and no gazetteer match
NoTokens(nm) == ~IsNone(nm) /\ Len(Split(Get(nm))) = 0 /\ IsNone(FindBrand(Get(nm)))

\* C6: guess_brand_model_from_name never raises, and an absent title, an
\* empty title and a title without tokens and without gazetteer match all
\* return (absent, absent).
C6_NeverRaises ==
    called =>
        /\ ~Get(brand_model).raised
        /\ (IsNone(name) \/ NoTokens(name))
               => (Get(brand_model).brand = None /\ Get(brand_model).model = None)

\* the cases of C6 that the guard of line 68 covers
C6_AbsentOrEmpty ==
    (called /\ (IsNone(name) \/ name = Some("")))
        => Get(brand_model) = [raised |-> FALSE, brand |-> None, model |-> None]

\* the code raises exactly on non-empty titles made of whitespace only
C6_RaisesOnBlank ==
    called => (Get(brand_model).raised <=> (NoTokens(name) /\ name # Some("")))

\* a brand and a model were returned
BothReturned ==
    /\ called /\ ~Get(brand_model).raised
    /\ ~IsNone(Get(brand_model).brand) /\ ~IsNone(Get(brand_model).model)

\* C11: the model that guess_brand_model_from_name returns is never equal,
\* ignoring case, to the brand it returns.
C11_ModelDiffersFromBrand ==
    BothReturned => Lower(Get(Get(brand_model).model)) # Lower(Get(Get(brand_model).brand))

\* the text that is left of the title after the brand (lines 81-82)
NameRest ==
    DropCategoryWord(Strip(RemoveFirstWord(normalize_whitespace(name),
                                           Get(Get(brand_model).brand))))

\* what holds of the code: a model equal to the brand is the match of the
\* fallback pattern of line 97, which is not compared with the brand
C11_EqualOnlyByFallback ==
    (BothReturned /\ Lower(Get(Get(brand_model).model)) = Lower(Get(Get(brand_model).brand)))
        => Get(brand_model).model = FallbackModel(NameRest)

-----------------------------------------------------------------------------
(* parse_product_page called on one page *)

MaxPagePairs == 2

\* the heading: none, empty, blank, and titles with resolution and backlight words
H1s == {<<>>, << <<>> >>, << <<"  ">> >>, << <<" Lenovo Yoga ", "WQHD 16GB">> >>,
        << <<"Laptop HP 15 backlit">> >>}

PageLabels == {<<"Rozdzielczo" \o s_acute \o c_acute>>,
               <<"Pod" \o s_acute \o "wietlenie", "klawiatury">>}
PageValues == {<<"Tak">>, <<"nie">>, <<>>}
PagePairs == PageLabels \X PageValues

\* s repeated n times
RECURSIVE Repeat(_, _)
Repeat(s, n) ==
    IF n = 0 THEN ""
    ELSE IF n = 1 THEN s
    ELSE Repeat(s, n \div 2) \o Repeat(s, n - n \div 2)

\* the shortest run of digits that int() refuses
LongDigitRun == Repeat("9", INT_MAX_STR_DIGITS + 1)

\* (prices, blocks, table_rows, grids) that go together on a page
PageExtras == {
    [prices |-> <<>>, blocks |-> <<>>, table_rows |-> <<>>, grids |-> <<>>],
    [prices |-> << <<"brak ceny">>, <<"3 499,00", "z" \o l_stroke>> >>,
     blocks |-> << [tag |-> "p", nodes |-> <<"Dost" \o e_ogonek \o "pny", "w magazynie">>],
                   [tag |-> "span", nodes |-> <<"4,7/5", "(12 ocen)">>] >>,
     table_rows |-> << <<[tag |-> "th", nodes |-> <<"Procesor">>],
                         [tag |-> "td", nodes |-> <<"Core i5">>]>> >>,
     grids |-> << << <<"Kolor">>, <<>> >> >>] }

PageUrls == {"https://k.pl/product/12/yoga.html", "https://k.pl/p/yoga"}

PageSoups ==
    {[h1 |-> h, prices |-> x.prices, blocks |-> x.blocks,
      dl_blocks |-> <<[dts |-> [i \in 1..Len(q) |-> q[i][1]],
                       dds |-> [i \in 1..Len(q) |-> q[i][2]]]>>,
      table_rows |-> x.table_rows, grids |-> x.grids] :
        h \in H1s, x \in PageExtras, q \in Tuples(PagePairs, MaxPagePairs)}

\* pages whose table gives the memory as a very long number
LongNumberSoups ==
    {[h1 |-> h, prices |-> <<>>, blocks |-> <<>>, dl_blocks |-> <<>>,
      table_rows |-> << <<[tag |-> "th", nodes |-> <<"Pami" \o e_ogonek \o c_acute \o " RAM">>],
                          [tag |-> "td", nodes |-> <<LongDigitRun \o " GB">>]>> >>,
      grids |-> <<>>] : h \in H1s}

InitPage ==
    /\ called = FALSE
    /\ \E soup \in PageSoups \cup LongNumberSoups : html = Some(soup)
    /\ url \in PageUrls
    /\ row = None
    /\ PriceIdle /\ BrandIdle /\ TitleIdle /\ TableIdle /\ LinkIdle /\ CrawlIdle

ParseProductPage ==
    /\ ~called
    /\ called' = TRUE
    /\ row' = Some(parse_product_page(Get(html), url))
    /\ UNCHANGED <<html, url, priceVars, brandVars, titleVars, tableVars, linkVars, crawlVars>>

NextPage == ParseProductPage

SpecPage == InitPage /\ [][NextPage]_vars

\* parse_product_page has returned a record
Returned == called /\ ~Get(row).raised

\* the two maps that parse_product_page merges
TableMap == extract_from_spec_table(Get(html))
TitleMap ==
    LET nm == PageName(Get(html))
    IN  extract_specs_from_title(IF IsNone(nm) THEN "" ELSE Get(nm))

\* C2: a field that the spec-table map holds is taken from the spec-table
\* map, also when the title yields it too; a title value is used only for
\* the fields that the spec-table map lacks.
C2_SpecTableWins ==
    Returned =>
        /\ \A k \in DOMAIN TableMap \cap DOMAIN TitleMap :
              Get(row)[k] = FieldOf(k, Some(TableMap[k]))
        /\ \A k \in DOMAIN TitleMap \ DOMAIN TableMap :
              Get(row)[k] = FieldOf(k, Some(TitleMap[k]))

\* both sources give screen_resolution, with different values
C2_Witness ==
    /\ called
    /\ "screen_resolution" \in DOMAIN TableMap \cap DOMAIN TitleMap
    /\ TableMap["screen_resolution"] # TitleMap["screen_resolution"]
    /\ Get(row).screen_resolution = Some(TableMap["screen_resolution"])

\* the keyboard_backlight string that the record is made from
BacklightText ==
    LET m == MergeFromTitle(TableMap, TitleMap)
    IN  IF "keyboard_backlight" \in DOMAIN m THEN Lower(m["keyboard_backlight"]) ELSE ""

Truthy(kb) ==
    \/ Contains(kb, "tak") \/ Contains(kb, "pod" \o s_acute) \/ Contains(kb, "podsw")
    \/ kb \in {"yes", "true", "1"}

\* C3: keyboard_backlight of the record is true for a truthy string and
\* absent for every other string and for a missing value; it is never false.
C3_BacklightTrueOrAbsent ==
    Returned =>
        /\ Get(row).keyboard_backlight # Some(FALSE)
        /\ Get(row).keyboard_backlight = (IF Truthy(BacklightText) THEN Some(TRUE) ELSE None)

\* what holds of the code: a truthy string gives true, the empty or missing
\* string gives absent
C3_TruthyPart ==
    Returned =>
        /\ Truthy(BacklightText) => Get(row).keyboard_backlight = Some(TRUE)
        /\ BacklightText = "" => Get(row).keyboard_backlight = None

\* C4: for every page and URL parse_product_page returns without raising,
\* and the record's product_url is the supplied URL.
C4_NeverRaises ==
    called => (~Get(row).raised /\ Get(row).product_url = Some(url))

\* what holds of the code: a record that is returned has the supplied URL,
\* and only a number of more than INT_MAX_STR_DIGITS digits makes it raise
C4_UrlOfRecord ==
    /\ Returned => Get(row).product_url = Some(url)
    /\ (called /\ Get(row).raised) =>
           \E k \in {"ram_gb", "storage_capacity_gb"} :
               /\ k \in DOMAIN TableMap
               /\ Len(TableMap[k]) > INT_MAX_STR_DIGITS

StringFields == {"product_id", "name", "brand", "model", "availability", "screen_resolution",
                 "panel_type", "cpu", "gpu", "storage_type", "os", "color"}

\* C5: no field of the record other than product_url holds the empty string.
C5_NoEmptyString ==
    Returned => \A k \in StringFields : Get(row)[k] # Some("")

\* the fields that the code does keep free of the empty string
C5_DerivedFields ==
    Returned => \A k \in {"product_id", "brand", "model", "availability"} : Get(row)[k] # Some("")

-----------------------------------------------------------------------------
(* discover_product_links called on one listing page *)

MaxAnchors == 3

BASE_URL == "https://www.komputronik.pl/"

Hrefs == {"/product/12/a.html", "/product/12/./a.html", "/product/7/b.html",
          "/product/preview.html", "/category/5022/laptopy.html"}

Listings == Tuples(Hrefs, MaxAnchors)

InitLinks ==
    /\ called = FALSE
    /\ listing_html \in Listings /\ uniq = <<>>
    /\ PriceIdle /\ BrandIdle /\ TitleIdle /\ TableIdle /\ PageIdle /\ CrawlIdle

DiscoverProductLinks ==
    /\ ~called
    /\ called' = TRUE
    /\ uniq' = discover_product_links(listing_html, BASE_URL)
    /\ UNCHANGED <<listing_html, priceVars, brandVars, titleVars, tableVars, pageVars, crawlVars>>

NextLinks == DiscoverProductLinks

SpecLinks == InitLinks /\ [][NextLinks]_vars

\* the anchors whose href matches the product pattern
ProductAnchors == {i \in 1..Len(listing_html) : IsProductHref(listing_html[i])}

\* the position of the first anchor whose URL is u
FirstAnchorOf(u) == Min({i \in ProductAnchors : urljoin(BASE_URL, listing_html[i]) = u})

\* C10: the result has no repeated URL, holds exactly the URLs of the
\* anchors whose href matches the product pattern, and lists them in the
\* order of their first occurrence in the page.
C10_UniqueFirstSeenOrder ==
    called =>
        /\ \A i, j \in 1..Len(uniq) : i # j => uniq[i] # uniq[j]
        /\ SeqToSet(uniq) = {urljoin(BASE_URL, listing_html[i]) : i \in ProductAnchors}
        /\ \A i, j \in 1..Len(uniq) : i < j => FirstAnchorOf(uniq[i]) < FirstAnchorOf(uniq[j])

\* a page with a URL repeated by two different hrefs and a second product after it
C10_Witness ==
    /\ called
    /\ Len(uniq) = 2
    /\ Cardinality(ProductAnchors) = 3
    /\ \E i, j \in ProductAnchors :
          /\ listing_html[i] # listing_html[j]
          /\ urljoin(BASE_URL, listing_html[i]) = urljoin(BASE_URL, listing_html[j])

-----------------------------------------------------------------------------
(* scrape_category.  pc is the position in the function: "while" at the     *)
(* loop test, "for" inside the loop over the links of the fetched listing  *)
(* page, "done" after the loop, "raised" when an exception left it.  links *)
(* holds the links of the current page that the for loop has not reached   *)
(* yet; requests is the log of the polite_get calls.                       *)

KOMPUTRONIK_CATEGORY_URL == "https://www.komputronik.pl/category/5022/laptopy.html"
MAX_PAGES == 999
TARGET_MIN_RECORDS == 3

\* the pages that the site serves in a run
MaxCrawlPages == 2

RECURSIVE IntToStr(_)
IntToStr(n) ==
    IF n < 10 THEN Char("0123456789", n + 1)
    ELSE IntToStr(n \div 10) \o Char("0123456789", (n % 10) + 1)

\* for a current_url without a query string
next_page_url(current_url, page_index) == current_url \o "?p=" \o IntToStr(page_index)

PageUrl(p) ==
    IF p = 1 THEN KOMPUTRONIK_CATEGORY_URL ELSE next_page_url(KOMPUTRONIK_CATEGORY_URL, p)

\* the listing pages and the product page that the site may answer with
CrawlListings == {<<>>,
                  <<"/product/preview.html">>,
                  <<"/product/12/a.html">>,
                  <<"/product/12/a.html", "/product/7/b.html">>,
                  <<"/product/7/b.html", "/product/12/./a.html", "/product/9/c.html">>}

CrawlSoup == [h1 |-> <<>>, prices |-> << <<"3 499,00 z" \o l_stroke>> >>, blocks |-> <<>>,
              dl_blocks |-> <<>>, table_rows |-> <<>>, grids |-> <<>>]

InitCrawl ==
    /\ called = FALSE
    /\ pc = "while" /\ page = 1 /\ links = <<>> /\ collected = <<>>
    /\ product_seen = {} /\ requests = <<>>
    /\ PriceIdle /\ BrandIdle /\ TitleIdle /\ TableIdle /\ PageIdle /\ LinkIdle

WhileCond == Len(collected) < TARGET_MIN_RECORDS /\ page <= MAX_PAGES

Request(kind, u, ok) == [kind |-> kind, url |-> u, ok |-> ok]

otherVars == <<priceVars, brandVars, titleVars, tableVars, pageVars, linkVars>>

\* polite_get of the listing page succeeds (lines 225-238)
ListingFetched ==
    /\ pc = "while" /\ WhileCond /\ page <= MaxCrawlPages
    /\ \E listing \in CrawlListings :
          LET found == discover_product_links(listing, BASE_URL)
          IN  /\ links' = found
              /\ pc' = IF Len(found) = 0 /\ page > 1 THEN "done" ELSE "for"
    /\ requests' = Append(requests, Request("listing", PageUrl(page), TRUE))
    /\ UNCHANGED <<called, page, collected, product_seen, otherVars>>

\* a listing failure that moves on to the next page instead of leaving the loop
ListingFailed_nextPage ==
    /\ pc = "while" /\ WhileCond /\ page <= MaxCrawlPages
    /\ requests' = Append(requests, Request("listing", PageUrl(page), FALSE))
    /\ page' = page + 1
    /\ UNCHANGED <<called, pc, links, collected, product_seen, otherVars>>

\* polite_get of the listing page raises (lines 229-231)
ListingFailed ==
    /\ pc = "while" /\ WhileCond /\ page <= MaxCrawlPages
    /\ requests' = Append(requests, Request("listing", PageUrl(page), FALSE))
    /\ pc' = "done"
    /\ UNCHANGED <<called, page, links, collected, product_seen, otherVars>>

\* the loop test fails (line 224)
LoopExit ==
    /\ pc = "while" /\ ~WhileCond
    /\ pc' = "done"
    /\ UNCHANGED <<called, page, links, collected, product_seen, requests, otherVars>>

\* a link that was requested before (lines 241-242)
SkipSeen ==
    /\ pc = "for" /\ Len(links) > 0 /\ Head(links) \in product_seen
    /\ links' = Tail(links)
    /\ UNCHANGED <<called, pc, page, collected, product_seen, requests, otherVars>>

\* polite_get of the product page succeeds (lines 243-255, 257 after the break)
ProductFetched ==
    /\ pc = "for" /\ Len(links) > 0 /\ Head(links) \notin product_seen
    /\ product_seen' = product_seen \cup {Head(links)}
    /\ requests' = Append(requests, Request("product", Head(links), TRUE))
    /\ LET parsed == parse_product_page(CrawlSoup, Head(links))
       IN  IF parsed.raised
           THEN pc' = "raised" /\ UNCHANGED <<page, links, collected>>
           ELSE /\ collected' = Append(collected, parsed)
                /\ IF Len(collected) + 1 >= TARGET_MIN_RECORDS
                   THEN pc' = "while" /\ page' = page + 1 /\ links' = <<>>
                   ELSE pc' = "for" /\ page' = page /\ links' = Tail(links)
    /\ UNCHANGED <<called, otherVars>>

\* polite_get of the product page raises (lines 243-248)
ProductFailed ==
    /\ pc = "for" /\ Len(links) > 0 /\ Head(links) \notin product_seen
    /\ product_seen' = product_seen \cup {Head(links)}
    /\ requests' = Append(requests, Request("product", Head(links), FALSE))
    /\ links' = Tail(links)
    /\ UNCHANGED <<called, pc, page, collected, otherVars>>

\* the for loop has no link left (line 257)
ForDone ==
    /\ pc = "for" /\ Len(links) = 0
    /\ pc' = "while" /\ page' = page + 1
    /\ UNCHANGED <<called, links, collected, product_seen, requests, otherVars>>

NextCrawl ==
    \/ ListingFetched
    \/ ListingFailed
    \/ LoopExit
    \/ SkipSeen
    \/ ProductFetched
    \/ ProductFailed
    \/ ForDone

SpecCrawl == InitCrawl /\ [][NextCrawl]_vars

\* the step issues a request of this kind and it fails
FailedStep(kind) ==
    /\ Len(requests') = Len(requests) + 1
    /\ requests'[Len(requests')].kind = kind
    /\ ~requests'[Len(requests')].ok

\* C9: a failed listing fetch ends the loop, keeps the collected records and
\* is the last request of the run; a failed product fetch adds no record
\* for that product and the loop goes on with the next link of the same
\* listing page.
C9_FetchFailures ==
    /\ [](\A i \in 1..Len(requests) :
            /\ (requests[i].kind = "listing" /\ ~requests[i].ok)
                   => (i = Len(requests) /\ pc = "done")
            /\ (requests[i].kind = "product" /\ ~requests[i].ok)
                   => \A j \in 1..Len(collected) :
                          collected[j].product_url # Some(requests[i].url))
    /\ [][/\ FailedStep("listing") => (pc' = "done" /\ collected' = collected)
          /\ FailedStep("product")
                 => /\ collected' = collected
                    /\ pc' = "for" /\ page' = page /\ links' = Tail(links)]_vars

\* a run in which a product fetch failed, the next link of the same page was
\* fetched and recorded, and a later listing fetch failed
C9_Witness ==
    /\ pc = "done"
    /\ Len(collected) > 0
    /\ Len(requests) > 0 /\ requests[Len(requests)].kind = "listing"
    /\ ~requests[Len(requests)].ok
    /\ \E i \in 1..(Len(requests) - 1) :
          /\ requests[i].kind = "product" /\ ~requests[i].ok
          /\ requests[i + 1].kind = "product" /\ requests[i + 1].ok

====
